---- MODULE Spec2Model ----
(***************************************************************************)
(* bitchat-cli: the wire packet codec (protocol.py) and the peer           *)
(* connection manager / broadcast dispatcher (ble_service.py, cli.py,      *)
(* chat_state.py) as state machines.                                       *)
(*                                                                         *)
(* Bytes are sequences of naturals in 0..255.  A Python Optional value is  *)
(* a sequence of at most one element: None is <<>> and a present value x   *)
(* is <<x>>.                                                               *)
(***************************************************************************)
EXTENDS Integers, Sequences, FiniteSets, TLC

(***************************************************************************)
(* Program constants                                                       *)
(***************************************************************************)
VERSION == 1
SENDER_ID_SIZE == 8
RECIPIENT_ID_SIZE == 8
SIGNATURE_SIZE == 64
HAS_RECIPIENT == 1
HAS_SIGNATURE == 2
MAX_CONNECT_ATTEMPTS == 3
\* struct.calcsize('>BB B Q B H'): 1 + 1 + 1 + 8 + 1 + 2, no padding under '>'
header_base_size == 14

MessageType == {1, 2, 3, 4}

(***************************************************************************)
(* Bounds of the model                                                     *)
(***************************************************************************)
\* payloads of every length 0..MaxPayloadLen over PayloadBytes are enumerated
MaxPayloadLen == 2
\* one payload longer than 255 bytes, so that both length bytes are used
LongPayloadLen == 300
\* connection attempt tasks created in one run
MaxTasks == 2
\* messages kept in the chat history in one run
MaxMessages == 1
\* the characters of the longest text the user enters
MaxTextLen == 65536

PayloadBytes == {0, 255}
Timestamps == {0, 16777474}
Ttls == {7, 255}

None == <<>>
Some(x) == <<x>>

RECURSIVE Repeat(_, _)
Repeat(b, n) == IF n = 0 THEN <<>> ELSE <<b>> \o Repeat(b, n - 1)

BROADCAST_RECIPIENT == Repeat(255, RECIPIENT_ID_SIZE)

(***************************************************************************)
(* struct: big-endian unsigned integers, fixed-size byte strings           *)
(***************************************************************************)
\* n as k big-endian bytes (struct.pack '>B', '>H', '>Q')
RECURSIVE ToBytesBE(_, _)
ToBytesBE(n, k) == IF k = 0 THEN <<>> ELSE Append(ToBytesBE(n \div 256, k - 1), n % 256)

\* the unsigned integer a big-endian byte string denotes (struct.unpack)
RECURSIVE FromBytesBE(_)
FromBytesBE(bs) ==
  IF bs = <<>> THEN 0
  ELSE FromBytesBE(SubSeq(bs, 1, Len(bs) - 1)) * 256 + bs[Len(bs)]

\* struct.pack 'Ns': the bytes cut to N, or padded with zero bytes to N
FixedBytes(bs, n) ==
  IF Len(bs) >= n THEN SubSeq(bs, 1, n) ELSE bs \o Repeat(0, n - Len(bs))

\* Python slice data[from:to] with 0 <= from (0-based, to exclusive, clipped)
Slice(data, from, to) ==
  SubSeq(data, from + 1, IF to > Len(data) THEN Len(data) ELSE to)

\* Python truthiness of an Optional[bytes]: None and b'' are false
Truthy(opt) == opt # None /\ opt[1] # <<>>

BitSet(flags, bit) == (flags \div bit) % 2 = 1

(***************************************************************************)
(* BitchatPacket                                                           *)
(***************************************************************************)
BitchatPacket(version, type, ttl, timestamp, sender_id, recipient_id, payload, signature) ==
  [version |-> version, type |-> type, ttl |-> ttl, timestamp |-> timestamp,
   sender_id |-> sender_id, recipient_id |-> recipient_id,
   payload |-> payload, signature |-> signature]

PackFlags(p) ==
  (IF p.recipient_id # None THEN HAS_RECIPIENT ELSE 0)
  + (IF p.signature # None THEN HAS_SIGNATURE ELSE 0)

\* struct.pack raises struct.error when a field does not fit its format
PackRaises(p) ==
  \/ p.version \notin 0..255
  \/ p.type \notin 0..255
  \/ p.ttl \notin 0..255
  \/ p.timestamp < 0
  \/ Len(p.payload) > 65535

PackHeader(p) ==
  <<p.version, p.type, p.ttl>>
  \o ToBytesBE(p.timestamp, 8)
  \o <<PackFlags(p)>>
  \o ToBytesBE(Len(p.payload), 2)
  \o FixedBytes(p.sender_id, SENDER_ID_SIZE)

pack(p) ==
  PackHeader(p)
  \o (IF Truthy(p.recipient_id) THEN p.recipient_id[1] ELSE <<>>)
  \o p.payload
  \o (IF Truthy(p.signature) THEN p.signature[1] ELSE <<>>)

\* a decoder that does not advance past the recipient id
UnpackPayloadOffsetNotAdvanced(flags) == header_base_size + SENDER_ID_SIZE

\* the offset after the optional recipient id
UnpackPayloadOffset(flags) ==
  header_base_size + SENDER_ID_SIZE
  + (IF BitSet(flags, HAS_RECIPIENT) THEN RECIPIENT_ID_SIZE ELSE 0)

\* the length checks of the optional fields and of the payload
RecipientTruncated(data, flags, offset) ==
  BitSet(flags, HAS_RECIPIENT) /\ Len(data) < offset + RECIPIENT_ID_SIZE

\* a decoder without the length check before the payload slice
PayloadTruncatedNever(data, offset, payload_len) == FALSE

PayloadTruncated(data, offset, payload_len) == Len(data) < offset + payload_len

\* a decoder without the length check before the signature slice
SignatureNeverTruncated(data, flags, offset) == FALSE

SignatureTruncated(data, flags, offset) ==
  BitSet(flags, HAS_SIGNATURE) /\ Len(data) < offset + SIGNATURE_SIZE

\* a decoder that accepts every version byte
VersionMismatchNever(version) == FALSE

\* `if version != VERSION: return None`
VersionMismatch(version) == version # VERSION

unpack(data) ==
  IF Len(data) < header_base_size + SENDER_ID_SIZE THEN None
  ELSE
    LET version     == data[1]
        msg_type_val == data[2]
        ttl         == data[3]
        timestamp   == FromBytesBE(SubSeq(data, 4, 11))
        flags       == data[12]
        payload_len == FromBytesBE(SubSeq(data, 13, 14))
        sender_id   == Slice(data, header_base_size, header_base_size + SENDER_ID_SIZE)
        offset1     == header_base_size + SENDER_ID_SIZE
        offset2     == UnpackPayloadOffset(flags)
        offset3     == offset2 + payload_len
    IN
    IF VersionMismatch(version) THEN None
    ELSE IF RecipientTruncated(data, flags, offset1) THEN None
    ELSE IF PayloadTruncated(data, offset2, payload_len) THEN None
    ELSE IF SignatureTruncated(data, flags, offset3) THEN None
    ELSE IF msg_type_val \notin MessageType THEN None
    ELSE Some(BitchatPacket(
           version, msg_type_val, ttl, timestamp, sender_id,
           IF BitSet(flags, HAS_RECIPIENT)
             THEN Some(Slice(data, offset1, offset1 + RECIPIENT_ID_SIZE)) ELSE None,
           Slice(data, offset2, offset2 + payload_len),
           IF BitSet(flags, HAS_SIGNATURE)
             THEN Some(Slice(data, offset3, offset3 + SIGNATURE_SIZE)) ELSE None))

(***************************************************************************)
(* Text.  A Python str is a sequence of code points; str.encode('utf-8')   *)
(* and bytes.decode('utf-8') convert between text and bytes.               *)
(***************************************************************************)
\* ord(c) for the characters the model writes
Ord(c) ==
  CASE c = "#" -> 35  [] c = "-" -> 45  [] c = ":" -> 58  [] c = "|" -> 124
    [] c = "0" -> 48  [] c = "1" -> 49  [] c = "2" -> 50  [] c = "3" -> 51
    [] c = "4" -> 52  [] c = "5" -> 53  [] c = "6" -> 54  [] c = "7" -> 55
    [] c = "8" -> 56  [] c = "9" -> 57
    [] c = "F" -> 70  [] c = "T" -> 84
    [] c = "a" -> 97  [] c = "b" -> 98  [] c = "c" -> 99  [] c = "d" -> 100
    [] c = "e" -> 101 [] c = "h" -> 104 [] c = "i" -> 105 [] c = "k" -> 107
    [] c = "l" -> 108 [] c = "m" -> 109 [] c = "n" -> 110 [] c = "o" -> 111
    [] c = "p" -> 112 [] c = "r" -> 114 [] c = "s" -> 115 [] c = "t" -> 116
    [] c = "u" -> 117 [] c = "w" -> 119 [] c = "x" -> 120 [] c = "y" -> 121
    [] c = "e'" -> 233

\* the str written with the characters cs
Str(cs) == [i \in 1..Len(cs) |-> Ord(cs[i])]

\* the UTF-8 bytes of one code point (no surrogate is ever encoded here)
Utf8EncodeChar(cp) ==
  IF cp < 128 THEN <<cp>>
  ELSE IF cp < 2048 THEN <<192 + (cp \div 64), 128 + (cp % 64)>>
  ELSE IF cp < 65536
    THEN <<224 + (cp \div 4096), 128 + ((cp \div 64) % 64), 128 + (cp % 64)>>
  ELSE <<240 + (cp \div 262144), 128 + ((cp \div 4096) % 64),
         128 + ((cp \div 64) % 64), 128 + (cp % 64)>>

\* str.encode('utf-8'), by halves so that a long text needs little depth
RECURSIVE Utf8Encode(_)
Utf8Encode(s) ==
  IF Len(s) = 0 THEN <<>>
  ELSE IF Len(s) = 1 THEN Utf8EncodeChar(s[1])
  ELSE LET h == Len(s) \div 2
       IN Utf8Encode(SubSeq(s, 1, h)) \o Utf8Encode(SubSeq(s, h + 1, Len(s)))

\* the length of the UTF-8 sequence a lead byte starts, 0 for an invalid lead
Utf8SeqLen(b) ==
  IF b < 128 THEN 1
  ELSE IF b \in 194..223 THEN 2
  ELSE IF b \in 224..239 THEN 3
  ELSE IF b \in 240..244 THEN 4
  ELSE 0

\* the code point of a well-formed sequence of n bytes, None for an overlong
\* form, a surrogate or a value past U+10FFFF
Utf8CodePoint(bs, n) ==
  LET cp == CASE n = 1 -> bs[1]
              [] n = 2 -> (bs[1] - 192) * 64 + (bs[2] - 128)
              [] n = 3 -> (bs[1] - 224) * 4096 + (bs[2] - 128) * 64 + (bs[3] - 128)
              [] n = 4 -> (bs[1] - 240) * 262144 + (bs[2] - 128) * 4096
                          + (bs[3] - 128) * 64 + (bs[4] - 128)
  IN IF \/ n = 3 /\ (cp < 2048 \/ cp \in 55296..57343)
        \/ n = 4 /\ (cp < 65536 \/ cp > 1114111)
       THEN None ELSE Some(cp)

\* bytes.decode('utf-8'): the text, or None where it raises UnicodeDecodeError
RECURSIVE Utf8Decode(_)
Utf8Decode(bs) ==
  IF bs = <<>> THEN Some(<<>>)
  ELSE
    LET n == Utf8SeqLen(bs[1])
    IN IF n = 0 \/ Len(bs) < n THEN None
       ELSE IF \E i \in 2..n : bs[i] \notin 128..191 THEN None
       ELSE LET cp   == Utf8CodePoint(bs, n)
                rest == Utf8Decode(SubSeq(bs, n + 1, Len(bs)))
            IN IF cp = None \/ rest = None THEN None ELSE Some(cp \o rest[1])

\* the decimal digits of n >= 0
RECURSIVE Digits(_)
Digits(n) == IF n < 10 THEN <<48 + n>> ELSE Append(Digits(n \div 10), 48 + (n % 10))

\* str(n) for an int n, as an f-string writes it
IntToStr(n) == IF n < 0 THEN <<45>> \o Digits(0 - n) ELSE Digits(n)

\* str(b) for a bool b
BoolToStr(b) == IF b THEN Str(<<"T", "r", "u", "e">>) ELSE Str(<<"F", "a", "l", "s", "e">>)

RECURSIVE DigitsValue(_)
DigitsValue(ds) ==
  IF ds = <<>> THEN 0 ELSE DigitsValue(SubSeq(ds, 1, Len(ds) - 1)) * 10 + (ds[Len(ds)] - 48)

\* int(s) for a str s made of digits, '-' and other printable characters (no
\* white space, '+' or '_'): the number, or None where it raises ValueError
ParseInt(s) ==
  LET neg == s # <<>> /\ s[1] = 45
      ds  == IF neg THEN SubSeq(s, 2, Len(s)) ELSE s
  IN IF ds = <<>> \/ \E i \in 1..Len(ds) : ds[i] \notin 48..57 THEN None
     ELSE Some(IF neg THEN 0 - DigitsValue(ds) ELSE DigitsValue(ds))

\* the 1-based place of the first ch in s, 0 when there is none
IndexOf(s, ch) ==
  IF \E i \in 1..Len(s) : s[i] = ch
    THEN CHOOSE i \in 1..Len(s) : s[i] = ch /\ \A j \in 1..(i - 1) : s[j] # ch
    ELSE 0

\* s.split(sep) for a one-character sep
RECURSIVE Split(_, _)
Split(s, sep) ==
  LET i == IndexOf(s, sep)
  IN IF i = 0 THEN <<s>>
     ELSE <<SubSeq(s, 1, i - 1)>> \o Split(SubSeq(s, i + 1, Len(s)), sep)

(***************************************************************************)
(* BitchatMessage                                                          *)
(***************************************************************************)
BitchatMessage(id, sender, content, timestamp, is_private, channel) ==
  [id |-> id, sender |-> sender, content |-> content, timestamp |-> timestamp,
   is_private |-> is_private, channel |-> channel]

to_payload(m) ==
  Utf8Encode(
    Str(<<"i", "d", ":">>) \o m.id
    \o Str(<<"|", "s", ":">>) \o m.sender
    \o Str(<<"|", "c", ":">>) \o m.content
    \o Str(<<"|", "t", ":">>) \o IntToStr(m.timestamp)
    \o Str(<<"|", "p", ":">>) \o BoolToStr(m.is_private)
    \o Str(<<"|", "c", "h", ":">>) \o (IF Truthy(m.channel) THEN m.channel[1] ELSE <<>>))

\* the (key, value) pairs put into msg_data, in order: one per part with a ':'
KeyValue(part) ==
  LET i == IndexOf(part, Ord(":"))
  IN [key |-> SubSeq(part, 1, i - 1), value |-> SubSeq(part, i + 1, Len(part))]
HasColon(part) == IndexOf(part, Ord(":")) # 0
KeyValues(parts) ==
  LET kept == SelectSeq(parts, HasColon)
  IN [i \in 1..Len(kept) |-> KeyValue(kept[i])]

\* msg_data.get(key): the value of the last pair with that key, or None
DictGet(msg_data, key) ==
  LET at == {i \in 1..Len(msg_data) : msg_data[i].key = key}
  IN IF at = {} THEN None
     ELSE Some(msg_data[CHOOSE i \in at : \A j \in at : j <= i].value)

\* msg_data.get(key, default)
DictGetOr(msg_data, key, default) ==
  IF DictGet(msg_data, key) = None THEN default ELSE DictGet(msg_data, key)[1]

\* a decoder without the check of the required field
MissingContentNever(msg_data) == FALSE

\* `if 'c' not in msg_data: return None`
MissingContent(msg_data) == DictGet(msg_data, Str(<<"c">>)) = None

\* a comparison with the wrong spelling
IsTrueTextLower(v) == v = Some(Str(<<"t", "r", "u", "e">>))

\* msg_data.get('p') == 'True'
IsTrueText(v) == v = Some(Str(<<"T", "r", "u", "e">>))

\* uuid is the value uuid.uuid4() returns in this call
from_payload(payload, uuid) ==
  LET decoded_payload == Utf8Decode(payload)
  IN IF decoded_payload = None THEN None
     ELSE
       LET parts    == Split(decoded_payload[1], Ord("|"))
           msg_data == KeyValues(parts)
           t        == DictGet(msg_data, Str(<<"t">>))
           ts       == IF t = None THEN Some(0) ELSE ParseInt(t[1])
           ch       == DictGet(msg_data, Str(<<"c", "h">>))
       IN IF MissingContent(msg_data) THEN None
          ELSE IF ts = None THEN None
          ELSE Some(BitchatMessage(
                 DictGetOr(msg_data, Str(<<"i", "d">>), uuid),
                 DictGetOr(msg_data, Str(<<"s">>), Str(<<"u", "n", "k", "n", "o", "w", "n">>)),
                 DictGetOr(msg_data, Str(<<"c">>), <<>>),
                 ts[1],
                 IsTrueText(DictGet(msg_data, Str(<<"p">>))),
                 IF Truthy(ch) THEN ch ELSE None))

(***************************************************************************)
(* The environment: peers in radio range and how each behaves              *)
(***************************************************************************)
\* transport addresses, in the order a sweep's device list is walked
PeerList == <<"a", "b">>
Peers == {PeerList[i] : i \in 1..Len(PeerList)}

\* good:    connect succeeds, the chat characteristic is exposed
\* invalid: connect succeeds, the chat characteristic is absent
\* timeout: every connect attempt times out
\* flaky:   any outcome of connect and of start_notify
Kinds == {"good", "invalid", "timeout", "flaky"}

\* the behaviours of the peers of PeerList that are explored; a flaky peer can
\* do whatever a good or a timeout peer does
KindProfiles ==
  {<<"flaky", "flaky">>, <<"timeout", "good">>, <<"good", "timeout">>,
   <<"invalid", "flaky">>, <<"flaky", "invalid">>}

ProfileKind(prof) == [a \in Peers |-> prof[CHOOSE i \in 1..Len(PeerList) : PeerList[i] = a]]

ConnectOutcomes(k) ==
  CASE k = "good"    -> {"ok"}
    [] k = "invalid" -> {"ok"}
    [] k = "timeout" -> {"timeout"}
    [] OTHER         -> {"ok", "timeout", "bleak_error", "not_connected", "error"}

NotifyOutcomes(k) ==
  IF k = "flaky" THEN {"ok", "bleak_error", "error"} ELSE {"ok"}

HasCharacteristic(k) == k \in {"good", "flaky"}

\* device.name or "unknown"
PeerName(a) == IF a = "a" THEN "alice" ELSE "unknown"

VARIABLES
  kind,              \* the behaviour of each peer
  clients,           \* BLEService.clients: insertion-ordered dict address -> client
  connecting_peers,  \* BLEService.connecting_peers
  connected_peers,   \* ChatState.connected_peers
  peer_nicknames,    \* ChatState.peer_nicknames
  is_connected,      \* the BleakClient handles whose is_connected is true
  subscribed,        \* the handles on which start_notify has succeeded
  announced,         \* addresses for which a peer-joined message was printed
  tasks,             \* the connect_to_device tasks created so far
  scanPc,            \* where scan_and_connect is
  cliPc,             \* where CLI.run is
  bcTasks,           \* broadcast: the addresses a write was issued to, in order
  bcFailed,          \* broadcast: the addresses whose write raised
  bcReported,        \* broadcast: the addresses printed as failed
  discPending,       \* shutdown: the disconnect() calls not yet returned
  messages,          \* ChatState.messages
  rxLast,            \* the bytes of the last notification handled, if any
  cPc, cPkt, cWire, cResult,  \* the packet codec exercised on its own
  mPc, mMsg, mSegs, mPayload, mResult   \* the message codec exercised on its own

chatVars == <<messages, rxLast>>
mgrVars == <<kind, clients, connecting_peers, connected_peers, peer_nicknames,
             is_connected, subscribed, announced, tasks, scanPc, cliPc,
             bcTasks, bcFailed, bcReported, discPending, chatVars>>
codecVars == <<cPc, cPkt, cWire, cResult>>
msgVars == <<mPc, mMsg, mSegs, mPayload, mResult>>
vars == <<mgrVars, codecVars, msgVars>>

(***************************************************************************)
(* The insertion-ordered dict BLEService.clients                           *)
(***************************************************************************)
Keys(d) == [i \in 1..Len(d) |-> d[i].addr]
KeySet(d) == {d[i].addr : i \in 1..Len(d)}

\* an assignment that is lost when the key is new
DictSetExistingOnly(d, a, h) ==
  [i \in 1..Len(d) |-> IF d[i].addr = a THEN [addr |-> a, client |-> h] ELSE d[i]]

\* d[a] = h: an existing key keeps its place, a new key goes last
DictSet(d, a, h) ==
  IF a \in KeySet(d)
    THEN [i \in 1..Len(d) |-> IF d[i].addr = a THEN [addr |-> a, client |-> h] ELSE d[i]]
    ELSE Append(d, [addr |-> a, client |-> h])

DictDelKeep(e, a) == e.addr # a

\* a `del` that is skipped
DictDelNothing(d, a) == d

DictDel(d, a) == SelectSeq(d, LAMBDA e : DictDelKeep(e, a))

(***************************************************************************)
(* ChatState.add_peer / remove_peer and BLEService.on_disconnect, as       *)
(* functions of the shared tables.  log collects the messages printed.     *)
(***************************************************************************)
Tables ==
  [clients |-> clients, connecting_peers |-> connecting_peers,
   connected_peers |-> connected_peers, peer_nicknames |-> peer_nicknames,
   log |-> <<>>]

add_peer(s, a, nick) ==
  IF a \notin s.connected_peers
    THEN [s EXCEPT !.connected_peers = @ \cup {a},
                   !.peer_nicknames = [x \in DOMAIN @ \cup {a} |-> IF x = a THEN nick ELSE @[x]],
                   !.log = Append(@, <<"joined", a>>)]
    ELSE s

\* remove_peer without the pop of the nickname
remove_peer_keeps_nickname(s, a) ==
  IF a \in s.connected_peers
    THEN [s EXCEPT !.connected_peers = @ \ {a}, !.log = Append(@, <<"left", a>>)]
    ELSE s

remove_peer(s, a) ==
  IF a \in s.connected_peers
    THEN [s EXCEPT !.connected_peers = @ \ {a},
                   !.peer_nicknames = [x \in DOMAIN @ \ {a} |-> @[x]],
                   !.log = Append(@, <<"left", a>>)]
    ELSE s

on_disconnect(s, a) ==
  LET s1 == IF a \in s.connected_peers
              THEN [remove_peer(s, a) EXCEPT !.log = Append(@, <<"left", a>>)]
              ELSE s
  IN [s1 EXCEPT !.clients = IF a \in KeySet(@) THEN DictDel(@, a) ELSE @,
                !.connecting_peers = @ \ {a}]

\* the tables after the step are s
Commit(s) ==
  /\ clients' = s.clients
  /\ connecting_peers' = s.connecting_peers
  /\ connected_peers' = s.connected_peers
  /\ peer_nicknames' = s.peer_nicknames
  /\ announced' = announced \cup {s.log[i][2] : i \in {j \in 1..Len(s.log) : s.log[j][1] = "joined"}}

(***************************************************************************)
(* connect_to_device: one task per call, one BleakClient per attempt       *)
(***************************************************************************)
\* the client of task i's current attempt
Handle(i) == [task |-> i, attempt |-> tasks[i].attempt]
AddrOf(h) == tasks[h.task].addr

NewTask(a) == [addr |-> a, attempt |-> 0, pc |-> "connect"]

\* the event loop can run a task or a callback: CLI.run has neither returned nor
\* raised, and is not between the end of gather and its next await
Running == cliPc \notin {"complete", "crashed", "reported"}

\* a task that has not returned
InFlight(t) == t.pc \in {"connect", "notify", "disconnect", "sleep"}

\* a retry loop that gives up one attempt early
AfterFailedAttemptOneShort(attempt) ==
  IF attempt < MAX_CONNECT_ATTEMPTS - 2 THEN "sleep" ELSE "failed"

\* after a failed attempt: sleep RETRY_DELAY and go round, or fall out of the loop
AfterFailedAttempt(attempt) ==
  IF attempt < MAX_CONNECT_ATTEMPTS - 1 THEN "sleep" ELSE "failed"

\* a validation branch that falls through to the retry logic instead of returning
AfterInvalidPeerRetries(attempt) == AfterFailedAttempt(attempt)

\* the validation branch without the characteristic: disconnect, then return
AfterInvalidPeer(attempt) == "rejected"

\* the finally block: on_disconnect(client) if not client.is_connected
Finally(s, a, still_connected) ==
  IF still_connected THEN s ELSE on_disconnect(s, a)

\* `await client.connect()` ends, and the task runs to its next await
ConnectDone(i, o) ==
  LET a == tasks[i].addr
      h == Handle(i)
      n == tasks[i].attempt
  IN
  /\ Running
  /\ tasks[i].pc = "connect"
  /\ o \in ConnectOutcomes(kind[a])
  /\ \/ /\ o = "ok"
        /\ HasCharacteristic(kind[a])
        /\ Commit(add_peer([Tables EXCEPT !.clients = DictSet(@, a, h)], a, PeerName(a)))
        /\ is_connected' = is_connected \cup {h}
        /\ tasks' = [tasks EXCEPT ![i].pc = "notify"]
     \/ /\ o = "ok"
        /\ ~HasCharacteristic(kind[a])
        /\ is_connected' = is_connected \cup {h}
        /\ tasks' = [tasks EXCEPT ![i].pc = "disconnect"]
        /\ UNCHANGED <<clients, connecting_peers, connected_peers, peer_nicknames, announced>>
     \/ /\ o \in {"timeout", "bleak_error", "not_connected"}
        /\ Commit(Finally(Tables, a, FALSE))
        /\ tasks' = [tasks EXCEPT ![i].pc = AfterFailedAttempt(n)]
        /\ UNCHANGED is_connected
     \/ /\ o = "error"
        /\ Commit(Finally(Tables, a, FALSE))
        /\ tasks' = [tasks EXCEPT ![i].pc = "failed"]
        /\ UNCHANGED is_connected
  /\ UNCHANGED <<kind, subscribed, scanPc, cliPc, bcTasks, bcFailed, bcReported,
                 discPending, codecVars, msgVars, chatVars>>

\* `await client.start_notify(...)` ends
NotifyDone(i, o) ==
  LET a == tasks[i].addr
      h == Handle(i)
      n == tasks[i].attempt
  IN
  /\ Running
  /\ tasks[i].pc = "notify"
  /\ o \in (IF h \in is_connected THEN NotifyOutcomes(kind[a]) ELSE {"bleak_error"})
  /\ \/ /\ o = "ok"
        /\ subscribed' = subscribed \cup {h}
        /\ tasks' = [tasks EXCEPT ![i].pc = "connected"]
        /\ UNCHANGED <<clients, connecting_peers, connected_peers, peer_nicknames, announced>>
     \/ /\ o = "bleak_error"
        /\ Commit(Finally(Tables, a, h \in is_connected))
        /\ tasks' = [tasks EXCEPT ![i].pc = AfterFailedAttempt(n)]
        /\ UNCHANGED subscribed
     \/ /\ o = "error"
        /\ Commit(Finally(Tables, a, h \in is_connected))
        /\ tasks' = [tasks EXCEPT ![i].pc = "failed"]
        /\ UNCHANGED subscribed
  /\ UNCHANGED <<kind, is_connected, scanPc, cliPc, bcTasks, bcFailed, bcReported,
                 discPending, codecVars, msgVars, chatVars>>

\* `await client.disconnect()` of a non-peer ends: the transport calls the
\* disconnected callback if the link was still up, then the finally block runs
DisconnectDone(i) ==
  LET a == tasks[i].addr
      h == Handle(i)
      s == IF h \in is_connected THEN on_disconnect(Tables, a) ELSE Tables
  IN
  /\ Running
  /\ tasks[i].pc = "disconnect"
  /\ is_connected' = is_connected \ {h}
  /\ Commit(Finally(s, a, FALSE))
  /\ tasks' = [tasks EXCEPT ![i].pc = AfterInvalidPeer(tasks[i].attempt)]
  /\ UNCHANGED <<kind, subscribed, scanPc, cliPc, bcTasks, bcFailed, bcReported,
                 discPending, codecVars, msgVars, chatVars>>

\* `await asyncio.sleep(RETRY_DELAY)` ends: the next attempt, with a new client
RetryWake(i) ==
  /\ Running
  /\ tasks[i].pc = "sleep"
  /\ tasks' = [tasks EXCEPT ![i].pc = "connect", ![i].attempt = @ + 1]
  /\ UNCHANGED <<kind, clients, connecting_peers, connected_peers, peer_nicknames,
                 is_connected, subscribed, announced, scanPc, cliPc, bcTasks,
                 bcFailed, bcReported, discPending, codecVars, msgVars, chatVars>>

\* the link of a connected client drops: the transport calls on_disconnect
PeerDrop(h) ==
  /\ Running
  /\ h \in is_connected
  /\ is_connected' = is_connected \ {h}
  /\ subscribed' = subscribed \ {h}
  /\ Commit(on_disconnect(Tables, AddrOf(h)))
  /\ UNCHANGED <<kind, tasks, scanPc, cliPc, bcTasks, bcFailed, bcReported,
                 discPending, codecVars, msgVars, chatVars>>

(***************************************************************************)
(* scan_and_connect                                                        *)
(***************************************************************************)
\* the sweep's test before it creates a task for a discovered address
ShouldConnect(a) == a \notin KeySet(clients) /\ a \notin connecting_peers

IsNew(a, devices) == a \in devices /\ ShouldConnect(a)

\* `await scanner.discover()` returns devices; the for loop runs without an
\* await, so it is one step.  Device addresses are distinct, so the loop adds
\* exactly the addresses that pass the test on entry.  The loop then sleeps and
\* goes round: scanPc stays "scanning".
ScanSweep(devices) ==
  LET new == SelectSeq(PeerList, LAMBDA a : IsNew(a, devices))
  IN
  /\ Running
  /\ scanPc = "scanning"
  /\ Len(tasks) + Len(new) <= MaxTasks
  /\ connecting_peers' = connecting_peers \cup {new[i] : i \in 1..Len(new)}
  /\ tasks' = tasks \o [i \in 1..Len(new) |-> NewTask(new[i])]
  /\ UNCHANGED <<kind, clients, connected_peers, peer_nicknames, is_connected,
                 subscribed, announced, scanPc, cliPc, bcTasks, bcFailed, bcReported,
                 discPending, codecVars, msgVars, chatVars>>

\* discover raises BleakError: the error is printed, the loop sleeps and goes round
ScanError ==
  /\ Running
  /\ scanPc = "scanning"
  /\ UNCHANGED <<kind, clients, connecting_peers, connected_peers, peer_nicknames,
                 is_connected, subscribed, announced, tasks, scanPc, cliPc, bcTasks,
                 bcFailed, bcReported, discPending, codecVars, msgVars, chatVars>>

(***************************************************************************)
(* broadcast                                                               *)
(***************************************************************************)
\* the writes created: one per client of the table that is connected, in
\* table order; each is named here by its client's address
IsWritten(e) == e.client \in is_connected
BroadcastWrites ==
  LET written == SelectSeq(clients, IsWritten)
  IN [i \in 1..Len(written) |-> written[i].addr]

\* os.urandom(8) of this run, and the nickname made of its first hex digits
my_peer_id == [i \in 1..SENDER_ID_SIZE |-> 16 * i]
nickname == Str(<<"u", "s", "e", "r", "-", "1", "0", "2", "0">>)

\* the message CLI.run makes of a line of input; uuid and now are what
\* uuid.uuid4() and time.time() return
InputMessage(text, uuid, now) == BitchatMessage(uuid, nickname, text, now, FALSE, None)

\* the packet broadcast makes of a message
BroadcastPacket(message, now) ==
  BitchatPacket(VERSION, 4, 7, now, my_peer_id, Some(BROADCAST_RECIPIENT),
                to_payload([message EXCEPT !.sender = nickname]), None)

\* a line whose message does not fit the 16-bit length field of a packet; no
\* specification sends it, its effect is examined from the states at the prompt
LongText == [i \in 1..MaxTextLen |-> Ord("x")]

\* the lines the user enters, and the id and time of the messages made of them
Texts == {Str(<<"h", "i">>)}
SentIds == {Str(<<"m", "1">>)}
SentTimes == {16777474}

\* whether pack raises struct.error on the packet broadcast makes of a line,
\* for every line, id and time a user can enter
BroadcastRaises ==
  [text \in Texts \cup {LongText} |-> [uuid \in SentIds |-> [now \in SentTimes |->
    PackRaises(BroadcastPacket(InputMessage(text, uuid, now), now))]]]

\* the length of the payload made of the long line
LongTextPayloadLen ==
  [uuid \in SentIds |-> [now \in SentTimes |->
    Len(to_payload(InputMessage(LongText, uuid, now)))]]

\* the user sends a line of text: CLI.run adds the message to the history and
\* calls broadcast, which runs up to `await asyncio.gather(...)`, or to its
\* end when there is nobody to write to.  struct.error raised by pack leaves
\* broadcast and CLI.run, which catches only EOFError and KeyboardInterrupt.
BroadcastStart(text, uuid, now) ==
  LET message == InputMessage(text, uuid, now)
      raises  == BroadcastRaises[text][uuid][now]
  IN
  /\ cliPc = "prompt"
  /\ Len(messages) < MaxMessages
  /\ messages' = Append(messages, message)
  /\ bcTasks' = IF raises THEN <<>> ELSE BroadcastWrites
  /\ bcFailed' = {}
  /\ bcReported' = <<>>
  /\ cliPc' = IF raises THEN "crashed"
              ELSE IF BroadcastWrites = <<>> THEN "prompt" ELSE "gather"
  /\ UNCHANGED <<kind, clients, connecting_peers, connected_peers, peer_nicknames,
                 is_connected, subscribed, announced, tasks, scanPc, discPending,
                 rxLast, codecVars, msgVars>>

(***************************************************************************)
(* notification_handler                                                    *)
(***************************************************************************)
\* a handler that also takes the packets this peer sent
IsOwnPacketNever(packet) == FALSE

\* not (packet.sender_id != self.state.my_peer_id)
IsOwnPacket(packet) == packet.sender_id = my_peer_id

\* the message the handler adds to the history for data, None when it adds none
HandledMessage(data, uuid) ==
  LET packet == unpack(data)
  IN IF packet = None \/ IsOwnPacket(packet[1]) THEN None
     ELSE from_payload(packet[1].payload, uuid)

\* the transport calls notification_handler with data a subscribed peer sent;
\* handled[data][uuid] is HandledMessage(data, uuid)
Notification(data, uuid, handled) ==
  LET message == handled[data][uuid]
  IN
  /\ Running
  /\ subscribed \cap is_connected # {}
  /\ message # None => Len(messages) < MaxMessages
  /\ messages' = IF message # None THEN Append(messages, message[1]) ELSE messages
  /\ rxLast' = Some(data)
  /\ UNCHANGED <<kind, clients, connecting_peers, connected_peers, peer_nicknames,
                 is_connected, subscribed, announced, tasks, scanPc, cliPc, bcTasks,
                 bcFailed, bcReported, discPending, codecVars, msgVars>>

\* the address printed for result i: list(self.clients.keys())[i], read from
\* the table as it is after the await
FailedClientAddr(i) == Keys(clients)[i]

\* gather returns; failing is the set of result indices holding an exception.
\* An index past the end of the key list raises IndexError out of broadcast,
\* and out of CLI.run, which catches only EOFError and KeyboardInterrupt.
BroadcastFinish(failing) ==
  LET n == Len(bcTasks)
      raising == {i \in failing : i > Len(clients)}
      printed == SelectSeq([i \in 1..n |-> i],
                           LAMBDA i : i \in failing /\ \A j \in raising : i < j)
  IN
  /\ cliPc = "gather"
  /\ failing \subseteq 1..n
  /\ bcFailed' = {bcTasks[i] : i \in failing}
  /\ bcReported' = [j \in 1..Len(printed) |-> FailedClientAddr(printed[j])]
  /\ cliPc' = IF raising = {} THEN "reported" ELSE "crashed"
  /\ UNCHANGED <<kind, clients, connecting_peers, connected_peers, peer_nicknames,
                 is_connected, subscribed, announced, tasks, scanPc, bcTasks,
                 discPending, codecVars, msgVars, chatVars>>

\* broadcast returns to the input loop and its locals are gone; no await lies
\* between the end of gather and the next prompt
BroadcastReturn ==
  /\ cliPc = "reported"
  /\ cliPc' = "prompt"
  /\ bcTasks' = <<>>
  /\ bcFailed' = {}
  /\ bcReported' = <<>>
  /\ UNCHANGED <<kind, clients, connecting_peers, connected_peers, peer_nicknames,
                 is_connected, subscribed, announced, tasks, scanPc, discPending,
                 codecVars, msgVars, chatVars>>

(***************************************************************************)
(* CLI.run: shutdown on EOFError / KeyboardInterrupt at the prompt         *)
(***************************************************************************)
\* the attempt tasks the shutdown path cancels: it cancels scan_task only
ShutdownCancels(i) == FALSE

ShutdownStart ==
  LET pend == {clients[i].client : i \in 1..Len(clients)} \cap is_connected
  IN
  /\ cliPc = "prompt"
  /\ scanPc' = "cancelled"
  /\ tasks' = [i \in 1..Len(tasks) |->
                 IF InFlight(tasks[i]) /\ ShutdownCancels(i)
                   THEN [tasks[i] EXCEPT !.pc = "cancelled"] ELSE tasks[i]]
  /\ discPending' = pend
  /\ cliPc' = IF pend = {} THEN "complete" ELSE "disconnecting"
  /\ UNCHANGED <<kind, clients, connecting_peers, connected_peers, peer_nicknames,
                 is_connected, subscribed, announced, bcTasks, bcFailed,
                 bcReported, codecVars, msgVars, chatVars>>

\* one client.disconnect() of the gather returns; the transport calls the
\* disconnected callback if the link was still up
ShutdownDisconnected(h) ==
  /\ cliPc = "disconnecting"
  /\ h \in discPending
  /\ discPending' = discPending \ {h}
  /\ is_connected' = is_connected \ {h}
  /\ subscribed' = subscribed \ {h}
  /\ Commit(IF h \in is_connected THEN on_disconnect(Tables, AddrOf(h)) ELSE Tables)
  /\ UNCHANGED <<kind, tasks, scanPc, cliPc, bcTasks, bcFailed, bcReported, codecVars, msgVars, chatVars>>

\* the gather of the disconnects returns: "Shutdown complete."
ShutdownFinish ==
  /\ cliPc = "disconnecting"
  /\ discPending = {}
  /\ cliPc' = "complete"
  /\ UNCHANGED <<kind, clients, connecting_peers, connected_peers, peer_nicknames,
                 is_connected, subscribed, announced, tasks, scanPc, bcTasks,
                 bcFailed, bcReported, discPending, codecVars, msgVars, chatVars>>

(***************************************************************************)
(* The connection manager                                                  *)
(***************************************************************************)
EmptyDict == <<>>

MgrInit ==
  /\ clients = EmptyDict
  /\ connecting_peers = {}
  /\ connected_peers = {}
  /\ peer_nicknames = [x \in {} |-> ""]
  /\ is_connected = {}
  /\ subscribed = {}
  /\ announced = {}
  /\ tasks = <<>>
  /\ scanPc = "scanning"
  /\ cliPc = "prompt"
  /\ bcTasks = <<>>
  /\ bcFailed = {}
  /\ bcReported = <<>>
  /\ discPending = {}
  /\ messages = <<>>
  /\ rxLast = None

CodecIdle ==
  /\ cPc = "idle"
  /\ cPkt = None
  /\ cWire = <<>>
  /\ cResult = None

MsgIdle ==
  /\ mPc = "idle"
  /\ mMsg = None
  /\ mSegs = <<>>
  /\ mPayload = <<>>
  /\ mResult = None

Init ==
  /\ kind \in {ProfileKind(prof) : prof \in KindProfiles}
  /\ MgrInit
  /\ CodecIdle
  /\ MsgIdle

TaskStep(i) ==
  \/ \E o \in {"ok", "timeout", "bleak_error", "not_connected", "error"} : ConnectDone(i, o)
  \/ \E o \in {"ok", "bleak_error", "error"} : NotifyDone(i, o)
  \/ DisconnectDone(i)
  \/ RetryWake(i)

ScanStep ==
  \/ \E devices \in SUBSET Peers : ScanSweep(devices)
  \/ ScanError

Next ==
  \/ \E i \in 1..Len(tasks) : TaskStep(i)
  \/ ScanStep
  \/ \E h \in is_connected : PeerDrop(h)
  \/ \E text \in Texts, uuid \in SentIds, now \in SentTimes : BroadcastStart(text, uuid, now)
  \/ \E failing \in SUBSET (1..Len(bcTasks)) : BroadcastFinish(failing)
  \/ BroadcastReturn
  \/ ShutdownStart
  \/ \E h \in discPending : ShutdownDisconnected(h)
  \/ ShutdownFinish

Spec == Init /\ [][Next]_vars

(***************************************************************************)
(* Fair scheduling: the event loop runs every task whose await has ended,  *)
(* and synchronous code runs to its next await.  Peers here either always  *)
(* time out or always connect and expose the characteristic.               *)
(***************************************************************************)
LiveInit ==
  /\ kind \in {ProfileKind(<<"timeout", "good">>), ProfileKind(<<"good", "timeout">>)}
  /\ MgrInit
  /\ CodecIdle
  /\ MsgIdle

FairTaskStep(i) == i \in 1..Len(tasks) /\ TaskStep(i)

FairSpec ==
  /\ LiveInit
  /\ [][Next]_vars
  /\ \A i \in 1..(MaxTasks + 1) : WF_vars(FairTaskStep(i))
  /\ WF_vars(BroadcastReturn)

(***************************************************************************)
(* The packet codec on its own: pack a valid packet, cut the bytes to a    *)
(* strict prefix or overwrite header bytes or neither, unpack              *)
(***************************************************************************)
SenderIds == {Repeat(0, SENDER_ID_SIZE), [i \in 1..SENDER_ID_SIZE |-> 16 * i]}
Recipients == {None, Some(BROADCAST_RECIPIENT)}
Signatures == {None, Some([i \in 1..SIGNATURE_SIZE |-> 100 + i])}
SmallPayloads == UNION {[1..n -> PayloadBytes] : n \in 0..MaxPayloadLen}
LongPayload == [i \in 1..LongPayloadLen |-> i % 256]

ValidPackets ==
  {BitchatPacket(VERSION, t, ttl, ts, sid, rid, pl, sg) :
     t \in MessageType, ttl \in Ttls, ts \in Timestamps, sid \in SenderIds,
     rid \in Recipients, pl \in SmallPayloads, sg \in Signatures}
  \cup
  {BitchatPacket(VERSION, 4, 7, 0, Repeat(0, SENDER_ID_SIZE), rid, LongPayload, sg) :
     rid \in Recipients, sg \in Signatures}

\* version bytes a received packet can carry, the supported one among them
VersionBytes == {0, VERSION, 2, 255}
\* 1-based places of the type byte, the flags byte and the low length byte
TamperedOffsets == {2, 12, 14}
\* values written there: valid and invalid types, flag sets, lengths
TamperBytes == {0, 3, 9, 255}

CodecInit ==
  /\ kind = ProfileKind(<<"good", "good">>)
  /\ MgrInit
  /\ cPc = "packet"
  /\ cPkt \in {Some(p) : p \in ValidPackets}
  /\ cWire = <<>>
  /\ cResult = None
  /\ MsgIdle

CodecPack ==
  /\ cPc = "packet"
  /\ ~PackRaises(cPkt[1])
  /\ cWire' = pack(cPkt[1])
  /\ cPc' = "packed"
  /\ UNCHANGED <<cPkt, cResult, mgrVars, msgVars>>

\* the first n bytes only, n less than the full length
CodecTruncate(n) ==
  /\ cPc = "packed"
  /\ n \in 0..(Len(cWire) - 1)
  /\ cWire' = SubSeq(cWire, 1, n)
  /\ cPc' = "truncated"
  /\ UNCHANGED <<cPkt, cResult, mgrVars, msgVars>>

\* the bytes as another sender could have written them: the version byte is
\* ver and the header byte at pos (type, flags, low length byte) is val
CodecTamper(ver, pos, val) ==
  /\ cPc = "packed"
  /\ cWire' = [cWire EXCEPT ![1] = ver, ![pos] = val]
  /\ cPc' = "tampered"
  /\ UNCHANGED <<cPkt, cResult, mgrVars, msgVars>>

CodecUnpack ==
  /\ cPc \in {"packed", "truncated", "tampered"}
  /\ cResult' = unpack(cWire)
  /\ cPc' = CASE cPc = "packed"    -> "unpacked"
               [] cPc = "truncated" -> "unpacked_prefix"
               [] cPc = "tampered"  -> "unpacked_tampered"
  /\ UNCHANGED <<cPkt, cWire, mgrVars, msgVars>>

CodecNext ==
  \/ CodecPack
  \/ \E n \in 0..Len(cWire) : CodecTruncate(n)
  \/ \E ver \in VersionBytes, pos \in TamperedOffsets, val \in TamperBytes :
       CodecTamper(ver, pos, val)
  \/ CodecUnpack

CodecSpec == CodecInit /\ [][CodecNext]_vars

(***************************************************************************)
(* The message codec on its own: encode a message and decode the payload,  *)
(* or decode a payload another sender wrote                                *)
(***************************************************************************)
\* segments joined into one received payload
MaxSegments == 3

MsgIds == {Str(<<"m", "1">>), <<>>, Str(<<"a", ":", "b">>)}
MsgSenders == {Str(<<"b", "o", "b">>), <<>>, Str(<<"a", "|", "b">>)}
MsgContents == {Str(<<"h", "i">>), <<>>, Str(<<"e'">>), Str(<<"x", ":", "y">>)}
MsgChannels ==
  {None, Some(Str(<<"#", "x">>)), Some(<<>>), Some(Str(<<"x", "|", "c", ":", "y">>))}

Messages ==
  {BitchatMessage(id, sd, ct, ts, pr, ch) :
     id \in MsgIds, sd \in MsgSenders, ct \in MsgContents, ts \in Timestamps,
     pr \in BOOLEAN, ch \in MsgChannels}

\* the values uuid.uuid4() can return
Uuids == {Str(<<"u", "1">>), Str(<<"u", "2">>)}

\* segments of a received payload: fields in any order, with and without a
\* value, a bare key, an empty segment, keys that only contain or start with c
RawSegments ==
  {Str(<<"i", "d", ":", "m", "1">>), Str(<<"s", ":", "b", "o", "b">>),
   Str(<<"c", ":", "h", "i">>), Str(<<"c", ":">>), Str(<<"c">>),
   Str(<<"t", ":", "5">>), Str(<<"t", ":", "x">>), Str(<<"p", ":", "T", "r", "u", "e">>),
   Str(<<"c", "h", ":", "#", "x">>), <<>>, Str(<<"x", ":", "c", ":", "y">>)}

\* bytes after the text: none, a byte no UTF-8 text holds, a cut two-byte form
RawTails == {<<>>, <<255>>, <<195>>}

RECURSIVE Join(_, _)
Join(segs, sep) ==
  IF Len(segs) = 0 THEN <<>>
  ELSE IF Len(segs) = 1 THEN segs[1]
  ELSE segs[1] \o <<sep>> \o Join(Tail(segs), sep)

MsgInit ==
  /\ kind = ProfileKind(<<"good", "good">>)
  /\ MgrInit
  /\ CodecIdle
  /\ mResult = None
  /\ \/ /\ mPc = "message"
        /\ mMsg \in {Some(m) : m \in Messages}
        /\ mSegs = <<>>
        /\ mPayload = <<>>
     \/ /\ mPc = "raw"
        /\ mMsg = None
        /\ mSegs \in UNION {[1..n -> RawSegments] : n \in 1..MaxSegments}
        /\ \E tail \in RawTails : mPayload = Utf8Encode(Join(mSegs, Ord("|"))) \o tail

MsgEncode ==
  /\ mPc = "message"
  /\ mPayload' = to_payload(mMsg[1])
  /\ mPc' = "payload"
  /\ UNCHANGED <<mMsg, mSegs, mResult, mgrVars, codecVars>>

MsgDecode(uuid) ==
  /\ mPc \in {"payload", "raw"}
  /\ mResult' = from_payload(mPayload, uuid)
  /\ mPc' = IF mPc = "payload" THEN "decoded" ELSE "decoded_raw"
  /\ UNCHANGED <<mMsg, mSegs, mPayload, mgrVars, codecVars>>

MsgNext ==
  \/ MsgEncode
  \/ \E uuid \in Uuids : MsgDecode(uuid)

MsgSpec == MsgInit /\ [][MsgNext]_vars

(***************************************************************************)
(* The manager with peers that talk: two peers that connect and expose the *)
(* characteristic, and notifications from the subscribed ones              *)
(***************************************************************************)
\* a packet another peer (sender id of zeros) broadcasts, and its bytes
PeerPacket(payload) ==
  BitchatPacket(VERSION, 4, 7, 0, Repeat(0, SENDER_ID_SIZE), Some(BROADCAST_RECIPIENT),
                payload, None)
PeerMessage == BitchatMessage(Str(<<"m", "2">>), Str(<<"b", "o", "b">>), Str(<<"y", "o">>), 5, FALSE, None)
GoodWire == pack(PeerPacket(to_payload(PeerMessage)))

\* bytes unpack rejects: cut short of the header, cut inside the payload,
\* another version, an unknown type
MalformedPackets ==
  {SubSeq(GoodWire, 1, header_base_size), SubSeq(GoodWire, 1, Len(GoodWire) - 1),
   [GoodWire EXCEPT ![1] = 2], [GoodWire EXCEPT ![2] = 9]}

\* packets whose payload from_payload rejects: no content field, a timestamp
\* that is no number, bytes that are not UTF-8
UndecodablePayloads ==
  {pack(PeerPacket(Utf8Encode(Str(<<"i", "d", ":", "m", "2", "|", "s", ":", "b", "o", "b">>)))),
   pack(PeerPacket(Utf8Encode(Str(<<"c", ":", "y", "o", "|", "t", ":", "x">>)))),
   pack(PeerPacket(<<99, 58, 255>>))}

\* a packet that carries this peer's own sender id
OwnWire ==
  pack([PeerPacket(to_payload(PeerMessage)) EXCEPT !.sender_id = my_peer_id])

\* a payload without an id: the handler's message gets a fresh one
NoIdWire == pack(PeerPacket(Utf8Encode(Str(<<"c", ":", "y", "o">>))))

InboundWires ==
  {GoodWire, OwnWire, NoIdWire} \cup MalformedPackets \cup UndecodablePayloads

ChatInit ==
  /\ kind = ProfileKind(<<"good", "good">>)
  /\ MgrInit
  /\ CodecIdle
  /\ MsgIdle

\* what the handler makes of each of these byte strings, worked out once
Handled == [data \in InboundWires |-> [uuid \in Uuids |-> HandledMessage(data, uuid)]]

\* the peers in range here: the first of PeerList only
ChatPeers == {PeerList[1]}

ChatNext ==
  \/ \E i \in 1..Len(tasks) : TaskStep(i)
  \/ \E devices \in SUBSET ChatPeers : ScanSweep(devices)
  \/ ScanError
  \/ \E h \in is_connected : PeerDrop(h)
  \/ \E data \in InboundWires, uuid \in Uuids : Notification(data, uuid, Handled)
  \/ \E text \in Texts, uuid \in SentIds, now \in SentTimes : BroadcastStart(text, uuid, now)
  \/ \E failing \in SUBSET (1..Len(bcTasks)) : BroadcastFinish(failing)
  \/ BroadcastReturn
  \/ ShutdownStart
  \/ \E h \in discPending : ShutdownDisconnected(h)
  \/ ShutdownFinish

ChatSpec == ChatInit /\ [][ChatNext]_vars

(***************************************************************************)
(* Properties                                                              *)
(***************************************************************************)
Range(f) == {f[i] : i \in DOMAIN f}
TasksOf(a) == {i \in 1..Len(tasks) : tasks[i].addr = a}

\* C1: at every reachable state every peer address has at most one live or
\* in-flight connection: no two attempt tasks for it that have not returned
\* (one sleeping between retries included), and no attempt task beside a
\* connected entry of the table that another task made.
C1_OneAttemptPerPeer ==
  \A a \in Peers :
    Cardinality({i \in TasksOf(a) :
                   \/ InFlight(tasks[i])
                   \/ \E j \in 1..Len(clients) :
                        clients[j] = [addr |-> a, client |-> Handle(i)]}) <= 1

\* C2: when broadcast has printed its failures, the addresses printed are
\* exactly the addresses whose write raised.
C2_ReportedExactlyFailed ==
  cliPc = "reported" => Range(bcReported) = bcFailed

\* C3: broadcast never raises, whatever disconnects while it awaits its
\* writes, and a failed write to a peer removed meanwhile is printed under
\* that peer's address.
C3_BroadcastNeverRaises ==
  /\ cliPc # "crashed"
  /\ cliPc = "reported" => bcFailed \ KeySet(clients) \subseteq Range(bcReported)

\* C4: on_disconnect for an address leaves it absent from clients,
\* connected_peers, peer_nicknames and connecting_peers, and a second call for
\* the same address changes nothing and prints nothing.
C4_OnDisconnectIdempotent ==
  \A a \in Peers :
    LET s1 == [on_disconnect(Tables, a) EXCEPT !.log = <<>>]
        s2 == on_disconnect(s1, a)
    IN /\ a \notin KeySet(s1.clients)
       /\ a \notin s1.connected_peers
       /\ a \notin DOMAIN s1.peer_nicknames
       /\ a \notin s1.connecting_peers
       /\ s2 = s1

\* an address that is in every table at once, where on_disconnect does all its work
C4_Witness ==
  \E a \in Peers :
    /\ a \in KeySet(clients)
    /\ a \in connected_peers
    /\ a \in DOMAIN peer_nicknames
    /\ a \in connecting_peers
    /\ Len(on_disconnect(Tables, a).log) = 2

\* C5 (state part): a task for a peer whose connects all time out sleeps only
\* between attempts and is failed only after attempt number MAX_CONNECT_ATTEMPTS.
C5_State ==
  \A i \in 1..Len(tasks) :
    kind[tasks[i].addr] = "timeout" =>
      /\ tasks[i].pc \in {"connect", "sleep", "failed"}
      /\ tasks[i].pc = "failed" => tasks[i].attempt + 1 = MAX_CONNECT_ATTEMPTS
      /\ tasks[i].pc = "sleep" => tasks[i].attempt + 1 < MAX_CONNECT_ATTEMPTS

\* C5 (step part): the step that fails such a task leaves the peer out of the
\* table and out of connecting_peers, so the sweep's test passes for it.
C5_Step ==
  \A i \in 1..Len(tasks) :
    (kind[tasks[i].addr] = "timeout" /\ tasks[i].pc # "failed" /\ tasks'[i].pc = "failed")
      => /\ tasks[i].addr \notin KeySet(clients')
         /\ tasks[i].addr \notin connecting_peers'
         /\ ShouldConnect(tasks[i].addr)'

\* C5: a peer whose every connect attempt times out is given up after exactly
\* MAX_CONNECT_ATTEMPTS attempts, the delay taken only between attempts, and
\* is then in neither the table nor the in-flight set: a later sweep that
\* sees it starts a fresh attempt.
C5_RetryCap == []C5_State /\ [][C5_Step]_vars

\* a failed task of a timing-out peer, the peer eligible again, and a fresh
\* task for it started by a later sweep
C5_Witness ==
  \E i, j \in 1..Len(tasks) :
    /\ i < j
    /\ tasks[i].addr = tasks[j].addr
    /\ kind[tasks[i].addr] = "timeout"
    /\ tasks[i].pc = "failed"
    /\ tasks[i].attempt + 1 = MAX_CONNECT_ATTEMPTS
    /\ tasks[j] = NewTask(tasks[i].addr)
    /\ tasks[i].addr \in connecting_peers

\* C6 (progress): with a peer whose connects always time out in range, a
\* discovered peer (one with an attempt task awaiting connect or a retry) whose
\* connect succeeds and which exposes the characteristic reaches the table,
\* unless CLI.run ends first.
C6_Progress ==
  \A b \in Peers :
    (/\ kind[b] = "good"
     /\ \E i \in TasksOf(b) : tasks[i].pc \in {"connect", "sleep"}
     /\ \E a \in Peers : kind[a] = "timeout")
      ~> (b \in KeySet(clients) \/ cliPc \in {"complete", "crashed"})

\* C6 (no blocking): while the event loop runs, every attempt task that has
\* not returned can take its next step and the sweep can run, whatever the
\* other tasks are doing.
C6_NotBlocked ==
  Running =>
    /\ \A i \in 1..Len(tasks) : InFlight(tasks[i]) => ENABLED TaskStep(i)
    /\ scanPc = "scanning" => ENABLED ScanStep

\* C6: when one discovered peer's connects always time out, every other
\* discovered peer that connects and exposes the characteristic eventually
\* reaches Connected under fair scheduling, and the timing-out attempt blocks
\* neither the other attempt tasks nor the sweep.
C6_ConcurrentConnects == C6_Progress /\ []C6_NotBlocked

\* a good peer in the table while the task of a timing-out peer sleeps between retries
C6_Witness ==
  \E i, j \in 1..Len(tasks) :
    /\ kind[tasks[i].addr] = "timeout"
    /\ tasks[i].pc = "sleep"
    /\ kind[tasks[j].addr] = "good"
    /\ tasks[j].addr \in KeySet(clients)
    /\ tasks[j].pc = "connected"

C8_OrderlyShutdown ==
  /\ cliPc = "complete" =>
       /\ scanPc = "cancelled"
       /\ \A i \in 1..Len(tasks) : ~InFlight(tasks[i])
       /\ \A j \in 1..Len(clients) : clients[j].client \notin is_connected
  /\ cliPc = "disconnecting" =>
       \A j \in 1..Len(clients) :
         clients[j].client \in is_connected => clients[j].client \in discPending

\* C9: unpack(pack(p)) = p in every field, for every valid packet p.
C9_PacketRoundTrip ==
  cPc = "unpacked" => cResult = cPkt

\* a packet with recipient, signature and a payload longer than 255 bytes decoded
C9_Witness ==
  /\ cPc = "unpacked"
  /\ cResult # None
  /\ cPkt[1].recipient_id # None
  /\ cPkt[1].signature # None
  /\ Len(cPkt[1].payload) > 255

\* C10: unpack of a strict prefix of a valid encoded packet returns no packet.
C10_PrefixRejected ==
  cPc = "unpacked_prefix" => cResult = None

\* a prefix that lacks only the last byte of the signature
C10_Witness ==
  /\ cPc = "unpacked_prefix"
  /\ cPkt[1].signature # None
  /\ Len(cWire) + 1 = Len(pack(cPkt[1]))
  /\ cResult = None

\* C11: unpack of bytes whose version byte is not VERSION returns no packet,
\* whatever type, flags and length bytes follow it.
C11_VersionRejected ==
  (cPc = "unpacked_tampered" /\ cWire[1] # VERSION) => cResult = None

\* bytes that decode to a packet once their version byte is VERSION, rejected
\* with version byte 2
C11_Witness ==
  /\ cPc = "unpacked_tampered"
  /\ cWire[1] = 2
  /\ unpack([cWire EXCEPT ![1] = VERSION]) # None
  /\ cResult = None

\* a str without the two delimiters of the payload format
Clean(str) == \A i \in 1..Len(str) : str[i] \notin {Ord("|"), Ord(":")}

\* C12 (as claimed): from_payload(m.to_payload()) = m for every message m
\* whose content and sender hold neither '|' nor ':', whatever its id,
\* timestamp, is_private and channel (absent or any string).
C12_MessageRoundTrip ==
  (mPc = "decoded" /\ Clean(mMsg[1].content) /\ Clean(mMsg[1].sender))
    => mResult = mMsg

\* C12 (amended): from_payload(m.to_payload()) = m for every message m whose
\* id, sender and content hold neither '|' nor ':' and whose channel is absent
\* or a non-empty string holding neither.
C12_MessageRoundTripCleanFields ==
  (/\ mPc = "decoded"
   /\ Clean(mMsg[1].id) /\ Clean(mMsg[1].sender) /\ Clean(mMsg[1].content)
   /\ mMsg[1].channel # None => (mMsg[1].channel[1] # <<>> /\ Clean(mMsg[1].channel[1])))
    => mResult = mMsg

\* a private message in a channel, with a non-ASCII content and a timestamp of
\* several digits, decoded
C12_Witness ==
  /\ mPc = "decoded"
  /\ mResult = mMsg
  /\ mMsg[1].is_private
  /\ mMsg[1].channel # None
  /\ mMsg[1].content = Str(<<"e'">>)
  /\ mMsg[1].timestamp > 9

\* the segment starts with the key and a ':'
HasKey(seg, key) ==
  /\ Len(seg) > Len(key)
  /\ SubSeq(seg, 1, Len(key)) = key
  /\ seg[Len(key) + 1] = Ord(":")

\* C13: a payload of '|'-separated segments none of which has key 'c' decodes
\* to no message, whichever other fields it holds and in whatever order; and
\* a message decoded from a payload with a 'c' segment and no 's' segment has
\* sender "unknown".
C13_MalformedPayload ==
  mPc = "decoded_raw" =>
    /\ (\A i \in 1..Len(mSegs) : ~HasKey(mSegs[i], Str(<<"c">>))) => mResult = None
    /\ (/\ mResult # None
        /\ \A i \in 1..Len(mSegs) : ~HasKey(mSegs[i], Str(<<"s">>)))
         => mResult[1].sender = Str(<<"u", "n", "k", "n", "o", "w", "n">>)

\* a well-formed text with a timestamp, an id and a segment whose value holds
\* "c:", but no content field, rejected
C13_Witness ==
  /\ mPc = "decoded_raw"
  /\ mSegs = <<Str(<<"x", ":", "c", ":", "y">>), Str(<<"t", ":", "5">>),
               Str(<<"i", "d", ":", "m", "1">>)>>
  /\ mPayload = Utf8Encode(Join(mSegs, Ord("|")))
  /\ mResult = None

\* C14: an entry leaves the connection table only when the handle stored in
\* it has disconnected: no step, and in particular no cleanup after a failed
\* or timed-out attempt made with another handle for the same address, removes
\* the entry of a handle that is still connected.
C14_EntryRemovedOnlyWithItsHandle ==
  [][\A j \in 1..Len(clients) :
       clients[j].addr \notin KeySet(clients') => clients[j].client \notin is_connected']_vars

\* C15: every peer in the connection table has an active notification
\* subscription (it is entered and announced only after start_notify has
\* succeeded, and is not left there when it fails), and an attempt task opens
\* no further connection while a handle of an earlier attempt is connected.
C15_ConnectedOnlyAfterSubscribed ==
  /\ \A j \in 1..Len(clients) : clients[j].client \in subscribed
  /\ \A i \in 1..Len(tasks) :
       tasks[i].pc = "connect" =>
         \A n \in 0..(tasks[i].attempt - 1) : [task |-> i, attempt |-> n] \notin is_connected

\* C16: once an attempt task has rejected a peer for the missing
\* characteristic, no step starts another attempt task for that address.
C16_RejectedIsTerminal ==
  [][\A a \in Peers :
       (\E i \in TasksOf(a) : tasks[i].pc = "rejected")
         => {i \in 1..Len(tasks') : tasks'[i].addr = a} = TasksOf(a)]_vars

\* C17: in every state (each is a point where control can pass to another
\* task or callback) the keys of clients, connected_peers and the keys of
\* peer_nicknames are the same set.
C17_TablesAgree ==
  /\ KeySet(clients) = connected_peers
  /\ connected_peers = DOMAIN peer_nicknames

\* a peer in the tables that connected on a retry after a failed attempt, and
\* another taken out of them by the disconnect callback
C17_Witness ==
  \E i, j \in 1..Len(tasks) :
    /\ tasks[i].pc = "connected" /\ tasks[i].attempt > 0
    /\ Handle(i) \in is_connected
    /\ tasks[i].addr \in KeySet(clients)
    /\ tasks[j].pc = "connected" /\ Handle(j) \notin is_connected
    /\ tasks[j].addr \notin KeySet(clients)

\* C18: a notification whose packet is malformed (truncated, wrong version,
\* unknown type) or whose payload does not decode is dropped: the handler's
\* step leaves the connection table, connected_peers, peer_nicknames,
\* connecting_peers and the message history as they were, and the connected
\* and subscribed handles stay so.
C18_MalformedNotificationDropped ==
  [][\A data \in MalformedPackets \cup UndecodablePayloads, uuid \in Uuids :
       Notification(data, uuid, Handled)
         => UNCHANGED <<clients, connected_peers, peer_nicknames, connecting_peers,
                        messages, is_connected, subscribed>>]_vars

\* the handler has run on a packet of another version, with a message in the
\* history and a connected, subscribed peer in the table
C18_Witness ==
  /\ rxLast = Some([GoodWire EXCEPT ![1] = 2])
  /\ messages = <<PeerMessage>>
  /\ clients # <<>>
  /\ \A j \in 1..Len(clients) : clients[j].client \in is_connected \cap subscribed

\* C19: a message whose payload is longer than 65535 bytes is rejected by
\* broadcast before it is packed: whenever the user can send with a connected
\* peer in the table, sending such a message issues no write and returns to
\* the prompt without raising.
C19_OversizeMessageRejected ==
  (cliPc = "prompt" /\ Len(messages) < MaxMessages /\ BroadcastWrites # <<>>) =>
    ~ENABLED (\E uuid \in SentIds, now \in SentTimes :
                /\ LongTextPayloadLen[uuid][now] > 65535
                /\ BroadcastStart(LongText, uuid, now)
                /\ ~(cliPc' = "prompt" /\ bcTasks' = <<>>))

\* C20 (the failed sweep): a sweep whose discover call raises BleakError
\* starts no attempt task and changes neither the table nor the in-flight set.
C20_FailedSweepChangesNothing ==
  [][ScanError => UNCHANGED <<tasks, clients, connecting_peers, connected_peers>>]_vars

\* C20: the discovery loop never stops because of a failure: as long as the
\* user has not shut the program down, and whatever the attempt tasks and the
\* sends have done, the loop is still there to perform another sweep (it waits
\* only for the synchronous end of a broadcast report).
C20_DiscoveryNeverStops ==
  (scanPc = "scanning" /\ cliPc # "reported") => ENABLED ScanStep

\* what the three conditions of C21 give for each notification, worked out
\* once from unpack, the local peer id and from_payload: the message to append
\* when the packet decodes, comes from another peer and its payload decodes,
\* None otherwise
C21_Expected ==
  [data \in InboundWires |-> [uuid \in Uuids |->
     LET packet == unpack(data)
     IN IF packet # None /\ packet[1].sender_id # my_peer_id
          THEN from_payload(packet[1].payload, uuid) ELSE None]]

\* C21: notification_handler appends a message to the history only if the
\* packet decoded, its sender_id differs from the local peer id and its payload
\* decoded to a message, and then it appends that message; a packet carrying
\* the local peer's own sender_id never changes the history.
C21_HistoryAppendConditions ==
  [][\A data \in InboundWires, uuid \in Uuids :
       Notification(data, uuid, Handled)
         => /\ messages' # messages
                 => /\ C21_Expected[data][uuid] # None
                    /\ messages' = Append(messages, C21_Expected[data][uuid][1])
            /\ (unpack(data) # None /\ unpack(data)[1].sender_id = my_peer_id)
                 => messages' = messages]_vars

\* the handler has run on a packet carrying the local peer's id, after it
\* appended the message of another peer's packet
C21_Witness ==
  /\ rxLast = Some(OwnWire)
  /\ unpack(OwnWire) # None
  /\ messages = <<PeerMessage>>

====
